---- MODULE Spec2Model ----
(***************************************************************************)
(* pack_planner / server.py: a static file server that adds CORS headers.  *)
(*                                                                         *)
(* server.py subclasses http.server.SimpleHTTPRequestHandler, overrides    *)
(* end_headers, binds a socketserver.TCPServer to port 8000, prints one    *)
(* line and calls serve_forever.  The operators below follow server.py and *)
(* the CPython 3.11 library methods it inherits and calls; each keeps the  *)
(* name of the method it models.                                           *)
(***************************************************************************)
EXTENDS Integers, Sequences, FiniteSets, TLC

(***************************************************************************)
(* Bounds of the model.                                                    *)
(***************************************************************************)
NumInst == 2
MaxConn == 2

PORT == 8000

Inst == 1..NumInst
Conn == 1..MaxConn

(***************************************************************************)
(* What is written to a connection: a sequence of items.  A status line,   *)
(* a header line, the blank line that ends the header block, or a body.    *)
(***************************************************************************)
StatusLine(code, message) ==
    [kind |-> "status", name |-> "HTTP/1.0", value |-> message, n |-> code, data |-> <<>>]
HeaderLine(keyword, value) ==
    [kind |-> "header", name |-> keyword, value |-> value, n |-> 0, data |-> <<>>]
HeaderLineN(keyword, num) ==
    [kind |-> "header", name |-> keyword, value |-> "", n |-> num, data |-> <<>>]
BlankLine ==
    [kind |-> "blank", name |-> "", value |-> "", n |-> 0, data |-> <<>>]
BodyBytes(of, bytes) ==
    [kind |-> "body", name |-> of, value |-> "", n |-> 0, data |-> bytes]

(***************************************************************************)
(* The serving root (the working directory).  Each entry is what os.path   *)
(* and open() report for a name under the root.                            *)
(***************************************************************************)
NoEntry == [type |-> "none", data |-> <<>>, mtime |-> 0, readable |-> FALSE, index |-> ""]
Tree(name) ==
    CASE name = "index.html"      -> [type |-> "file", data |-> <<1, 2, 3>>, mtime |-> 2, readable |-> TRUE, index |-> ""]
      [] name = "data.bin"        -> [type |-> "file", data |-> <<4, 5>>, mtime |-> 2, readable |-> TRUE, index |-> ""]
      [] name = "empty.txt"       -> [type |-> "file", data |-> <<>>, mtime |-> 2, readable |-> TRUE, index |-> ""]
      [] name = "secret.txt"      -> [type |-> "file", data |-> <<6>>, mtime |-> 2, readable |-> FALSE, index |-> ""]
      [] name = "sub"             -> [type |-> "dir", data |-> <<>>, mtime |-> 2, readable |-> TRUE, index |-> ""]
      [] name = "docs"            -> [type |-> "dir", data |-> <<>>, mtime |-> 2, readable |-> TRUE, index |-> "docs/index.html"]
      [] name = "docs/index.html" -> [type |-> "file", data |-> <<7, 8>>, mtime |-> 2, readable |-> TRUE, index |-> ""]
      [] name = "locked"          -> [type |-> "dir", data |-> <<>>, mtime |-> 2, readable |-> FALSE, index |-> ""]
      [] OTHER                    -> NoEntry

(* The listing list_directory builds for a directory: its sorted names.    *)
Listing(name) ==
    CASE name = "sub" -> <<97>>
      [] OTHER        -> <<>>

(***************************************************************************)
(* Request targets a client may send, and what translate_path and          *)
(* urlsplit make of each: the name under the root (query and fragment      *)
(* dropped) and whether the path ends in "/".                              *)
(***************************************************************************)
Targets ==
    {"/index.html", "/index.html?v=1", "/data.bin", "/empty.txt", "/secret.txt",
     "/nope", "/sub", "/sub/", "/docs/", "/locked/", "/index.html/"}

translate_path(path) ==
    CASE path = "/index.html"     -> [name |-> "index.html", slash |-> FALSE]
      [] path = "/index.html?v=1" -> [name |-> "index.html", slash |-> FALSE]
      [] path = "/data.bin"       -> [name |-> "data.bin", slash |-> FALSE]
      [] path = "/empty.txt"      -> [name |-> "empty.txt", slash |-> FALSE]
      [] path = "/secret.txt"     -> [name |-> "secret.txt", slash |-> FALSE]
      [] path = "/sub"            -> [name |-> "sub", slash |-> FALSE]
      [] path = "/sub/"           -> [name |-> "sub", slash |-> TRUE]
      [] path = "/docs/"          -> [name |-> "docs", slash |-> TRUE]
      [] path = "/locked/"        -> [name |-> "locked", slash |-> TRUE]
      [] path = "/index.html/"    -> [name |-> "index.html", slash |-> TRUE]
      [] OTHER                    -> [name |-> "nope", slash |-> FALSE]

(***************************************************************************)
(* parse_request's reading of the last word of a three-word request line:  *)
(* not a version at all, or its (major, minor) numbers.                    *)
(***************************************************************************)
Versions == {"HTTP/0.9", "HTTP/1.0", "HTTP/1.1", "HTTP/2.0", "HTTP/abc", "junk"}

version_number(version) ==
    CASE version = "HTTP/0.9" -> [ok |-> TRUE, major |-> 0, minor |-> 9]
      [] version = "HTTP/1.0" -> [ok |-> TRUE, major |-> 1, minor |-> 0]
      [] version = "HTTP/1.1" -> [ok |-> TRUE, major |-> 1, minor |-> 1]
      [] version = "HTTP/2.0" -> [ok |-> TRUE, major |-> 2, minor |-> 0]
      [] OTHER                -> [ok |-> FALSE, major |-> 0, minor |-> 0]

(***************************************************************************)
(* Requests.  raw: what readline returns for the request line ("eof": the  *)
(* client closed, "toolong": more than 65536 bytes, "line": the words).    *)
(* "reset": readline raises ConnectionResetError; "peergone": a line whose  *)
(* reply cannot be written, the write raises BrokenPipeError.              *)
(* ims: the If-Modified-Since header; inm: If-None-Match present; hdr: how *)
(* reading the header block ends.                                          *)
(***************************************************************************)
NoIms == [present |-> FALSE, wellformed |-> FALSE, utc |-> FALSE, time |-> 0]
ImsValues ==
    {NoIms,
     [present |-> TRUE, wellformed |-> FALSE, utc |-> FALSE, time |-> 0],
     [present |-> TRUE, wellformed |-> TRUE, utc |-> FALSE, time |-> 3]}
    \cup {[present |-> TRUE, wellformed |-> TRUE, utc |-> TRUE, time |-> t] : t \in 1..3}

Request(raw, words, ims, inm, hdr) ==
    [raw |-> raw, words |-> words, ims |-> ims, inm |-> inm, hdr |-> hdr]

(* The same request from a client that stops reading before the reply.     *)
PeerGone(req) ==
    [raw |-> "peergone", words |-> req.words, ims |-> req.ims, inm |-> req.inm, hdr |-> req.hdr]

Methods == {"GET", "HEAD", "POST"}

RequestLines ==
    {<<m, p>> : m \in Methods, p \in Targets}
    \cup {<<m, p, v>> : m \in Methods, p \in Targets, v \in {"HTTP/1.0", "HTTP/1.1"}}
    \cup {<<"GET", "/index.html", v>> : v \in Versions}
    \cup {<<>>, <<"GARBAGE">>, <<"GET", "/index.html", "extra", "HTTP/1.0">>,
          <<"GET", "/index.html", "extra", "junk">>}

Requests ==
    {Request("line", w, ims, inm, "ok") : w \in RequestLines, ims \in ImsValues, inm \in BOOLEAN}
    \cup {Request("line", <<"GET", "/index.html", "HTTP/1.0">>, NoIms, FALSE, hdr) :
              hdr \in {"LineTooLong", "HTTPException"}}
    \cup {Request(raw, <<>>, NoIms, FALSE, "ok") : raw \in {"eof", "toolong", "reset"}}
    \cup {PeerGone(Request("line", <<"GET", p, "HTTP/1.0">>, NoIms, FALSE, "ok")) :
              p \in {"/index.html", "/nope"}}

(***************************************************************************)
(* The handler object: the attributes the methods read and write.          *)
(***************************************************************************)
(* raised: the exception that left the handler, "" when none did.  Once an *)
(* exception is raised nothing more is written.                            *)
setup(req) ==
    [req |-> req, command |-> "None", path |-> "", request_version |-> "unset",
     close_connection |-> TRUE, headers_buffer |-> <<>>, wfile |-> <<>>,
     raised |-> ""]

wfile_write(h, items) ==
    IF h.raised # "" THEN h
    ELSE IF h.req.raw = "peergone" THEN [h EXCEPT !.raised = "BrokenPipeError"]
    ELSE [h EXCEPT !.wfile = @ \o items]

send_response_only(h, code, message) ==
    IF h.request_version # "HTTP/0.9"
    THEN [h EXCEPT !.headers_buffer = Append(@, StatusLine(code, message))]
    ELSE h

BufferHeader(h, line) ==
    IF h.request_version # "HTTP/0.9"
    THEN [h EXCEPT !.headers_buffer = Append(@, line)]
    ELSE h

send_header(h, keyword, value) ==
    LET h1 == BufferHeader(h, HeaderLine(keyword, value))
    IN IF keyword = "Connection"
       THEN IF value = "close" THEN [h1 EXCEPT !.close_connection = TRUE]
            ELSE IF value = "keep-alive" THEN [h1 EXCEPT !.close_connection = FALSE]
            ELSE h1
       ELSE h1

send_header_n(h, keyword, num) == BufferHeader(h, HeaderLineN(keyword, num))

send_response(h, code, message) ==
    send_header(send_header(send_response_only(h, code, message),
                            "Server", "SimpleHTTP/0.6"),
                "Date", "now")

flush_headers(h) ==
    [wfile_write(h, h.headers_buffer) EXCEPT !.headers_buffer = <<>>]

base_end_headers(h) ==
    IF h.request_version # "HTTP/0.9"
    THEN flush_headers([h EXCEPT !.headers_buffer = Append(@, BlankLine)])
    ELSE h

(* The header block ended without the two lines, or with one line more.   *)
end_headers_plain(h) == base_end_headers(h)

end_headers_three(h) ==
    base_end_headers(
        send_header(send_header(send_header(h, "Access-Control-Allow-Origin", "*"),
                                "Access-Control-Allow-Methods", "GET"),
                    "Access-Control-Allow-Headers", "*"))

(* CORSRequestHandler.end_headers *)
end_headers(h) ==
    base_end_headers(
        send_header(send_header(h, "Access-Control-Allow-Origin", "*"),
                    "Access-Control-Allow-Methods", "GET"))

HasBody(code) == code >= 200 /\ code \notin {204, 205, 304}

(* The HTML page send_error formats for a status code.                     *)
ErrorPage(code) == <<code>>

(* An error reply that ends its header block with the library's own        *)
(* end_headers, as if the two lines were added on the success path only.   *)
send_error_no_cors(h, code, message) ==
    LET h1 == send_header(send_response(h, code, message), "Connection", "close")
        h2 == IF HasBody(code)
              THEN send_header_n(send_header(h1, "Content-Type", "text/html;charset=utf-8"),
                                 "Content-Length", Len(ErrorPage(code)))
              ELSE h1
        h3 == base_end_headers(h2)
    IN IF h.command # "HEAD" /\ HasBody(code)
       THEN wfile_write(h3, <<BodyBytes("error", ErrorPage(code))>>)
       ELSE h3

send_error(h, code, message) ==
    LET h1 == send_header(send_response(h, code, message), "Connection", "close")
        h2 == IF HasBody(code)
              THEN send_header_n(send_header(h1, "Content-Type", "text/html;charset=utf-8"),
                                 "Content-Length", Len(ErrorPage(code)))
              ELSE h1
        h3 == end_headers(h2)
    IN IF h.command # "HEAD" /\ HasBody(code)
       THEN wfile_write(h3, <<BodyBytes("error", ErrorPage(code))>>)
       ELSE h3

(***************************************************************************)
(* BaseHTTPRequestHandler.parse_request.  The handler class leaves         *)
(* protocol_version at "HTTP/1.0", so neither a 1.1 request line nor a     *)
(* Connection or Expect request header can turn close_connection off.      *)
(***************************************************************************)
protocol_version == [major |-> 1, minor |-> 0]

AtLeast(v, major, minor) ==
    v.major > major \/ (v.major = major /\ v.minor >= minor)

Parsed(h, ok) == [h |-> h, ok |-> ok]

parse_headers(h, command, path) ==
    LET h1 == [h EXCEPT !.command = command, !.path = path]
    IN CASE h.req.hdr = "LineTooLong"   -> Parsed(send_error(h1, 431, "Line too long"), FALSE)
         [] h.req.hdr = "HTTPException" -> Parsed(send_error(h1, 431, "Too many headers"), FALSE)
         [] OTHER                       -> Parsed(h1, TRUE)

parse_words(h, words) ==
    IF ~(2 <= Len(words) /\ Len(words) <= 3)
    THEN Parsed(send_error(h, 400, "Bad request syntax"), FALSE)
    ELSE IF Len(words) = 2 /\ words[1] # "GET"
    THEN Parsed(send_error(h, 400, "Bad HTTP/0.9 request type"), FALSE)
    ELSE parse_headers(h, words[1], words[2])

parse_request(h0) ==
    LET h     == [h0 EXCEPT !.command = "None", !.request_version = "HTTP/0.9",
                            !.close_connection = TRUE]
        words == h.req.words
    IN IF Len(words) = 0 THEN Parsed(h, FALSE)
       ELSE IF Len(words) >= 3
       THEN LET version == words[Len(words)]
                vn      == version_number(version)
            IN IF ~vn.ok
               THEN Parsed(send_error(h, 400, "Bad request version"), FALSE)
               ELSE LET h1 == IF AtLeast(vn, 1, 1) /\ AtLeast(protocol_version, 1, 1)
                              THEN [h EXCEPT !.close_connection = FALSE]
                              ELSE h
                    IN IF AtLeast(vn, 2, 0)
                       THEN Parsed(send_error(h1, 505, "Invalid HTTP version"), FALSE)
                       ELSE parse_words([h1 EXCEPT !.request_version = version], words)
       ELSE parse_words(h, words)

(***************************************************************************)
(* SimpleHTTPRequestHandler: send_head, list_directory, do_GET, do_HEAD.   *)
(***************************************************************************)
guess_type(name) ==
    CASE name \in {"index.html", "docs/index.html"} -> "text/html"
      [] name \in {"empty.txt", "secret.txt"}       -> "text/plain"
      [] OTHER                                      -> "application/octet-stream"

NoFile == [open |-> FALSE, data |-> <<>>]
Head_(h, f) == [h |-> h, f |-> f]

list_directory(h, name) ==
    IF ~Tree(name).readable
    THEN Head_(send_error(h, 404, "No permission to list directory"), NoFile)
    ELSE LET encoded == Listing(name)
             h1 == send_response(h, 200, "OK")
             h2 == send_header(h1, "Content-type", "text/html; charset=utf-8")
             h3 == send_header_n(h2, "Content-Length", Len(encoded))
         IN Head_(end_headers(h3), [open |-> TRUE, data |-> encoded])

NotModified(h, entry) ==
    /\ h.req.ims.present
    /\ ~h.req.inm
    /\ h.req.ims.wellformed
    /\ h.req.ims.utc
    /\ entry.mtime <= h.req.ims.time

send_file(h, name, slash) ==
    LET entry == Tree(name)
    IN IF slash \/ entry.type # "file" \/ ~entry.readable
       THEN Head_(send_error(h, 404, "File not found"), NoFile)
       ELSE IF NotModified(h, entry)
       THEN Head_(end_headers(send_response(h, 304, "Not Modified")), NoFile)
       ELSE LET h1 == send_response(h, 200, "OK")
                h2 == send_header(h1, "Content-type", guess_type(name))
                h3 == send_header_n(h2, "Content-Length", Len(entry.data))
                h4 == send_header_n(h3, "Last-Modified", entry.mtime)
            IN Head_(end_headers(h4), [open |-> TRUE, data |-> entry.data])

send_head(h) ==
    LET path  == translate_path(h.path)
        entry == Tree(path.name)
    IN IF entry.type = "dir"
       THEN IF ~path.slash
            THEN LET h1 == send_response(h, 301, "Moved Permanently")
                     h2 == send_header(h1, "Location", path.name)
                     h3 == send_header_n(h2, "Content-Length", 0)
                 IN Head_(end_headers(h3), NoFile)
            ELSE IF entry.index # ""
            THEN send_file(h, entry.index, FALSE)
            ELSE list_directory(h, path.name)
       ELSE send_file(h, path.name, path.slash)

copyfile_skip(h, f) == h

(* shutil.copyfileobj writes the chunks it reads: none for an empty file.  *)
copyfile(h, f) ==
    IF f.data = <<>> THEN h ELSE wfile_write(h, <<BodyBytes("file", f.data)>>)

do_GET(h) ==
    LET r == send_head(h)
    IN IF r.f.open THEN copyfile(r.h, r.f) ELSE r.h

do_HEAD(h) == send_head(h).h

(***************************************************************************)
(* BaseHTTPRequestHandler.handle_one_request and handle.                   *)
(***************************************************************************)
handle_one_request(h) ==
    CASE h.req.raw = "reset"   -> [h EXCEPT !.raised = "ConnectionResetError"]
      [] h.req.raw = "toolong" ->
            send_error([h EXCEPT !.request_version = "", !.command = ""],
                       414, "Request-URI Too Long")
      [] h.req.raw = "eof"     -> [h EXCEPT !.close_connection = TRUE]
      [] OTHER ->
            LET p == parse_request(h)
            IN IF ~p.ok THEN p.h
               ELSE IF p.h.command = "GET" THEN do_GET(p.h)
               ELSE IF p.h.command = "HEAD" THEN do_HEAD(p.h)
               ELSE send_error(p.h, 501, "Unsupported method")

(* handle: close_connection = True, then one request.                      *)
handle(req) == handle_one_request([setup(req) EXCEPT !.close_connection = TRUE])

(***************************************************************************)
(* What a reply tells: its status code (0 when no status line was sent),   *)
(* its header block (the lines before the blank line), its body.           *)
(***************************************************************************)
StatusOf(w) == IF w # <<>> /\ w[1].kind = "status" THEN w[1].n ELSE 0

HeaderBlockEnds(w) == {k \in 1..Len(w) : w[k].kind = "blank"}

HasHeader(w, keyword, value) ==
    \E k \in HeaderBlockEnds(w) : \E j \in 1..(k - 1) :
        w[j].kind = "header" /\ w[j].name = keyword /\ w[j].value = value

BodyItems(w) == SelectSeq(w, LAMBDA it : it.kind = "body")

BodyOf(w) == IF BodyItems(w) = <<>> THEN <<>> ELSE BodyItems(w)[1].data

IsErrorReply(h) ==
    \/ h.raised # ""
    \/ StatusOf(h.wfile) >= 400
    \/ \E k \in 1..Len(h.wfile) : h.wfile[k].kind = "body" /\ h.wfile[k].name = "error"

(***************************************************************************)
(* The processes.  pc: where each instance of server.py stands.            *)
(*   "start"    before line 11                                             *)
(*   "bound"    TCPServer constructed (bound and listening), before print  *)
(*   "printed"  after line 12, before serve_forever                        *)
(*   "serving"  in serve_forever, waiting in select                        *)
(*   "handling" in serve_forever, inside the handler of one connection     *)
(*   "exited"   the process has ended                                      *)
(* portOwner: the instance whose socket holds port 8000, 0 when free.      *)
(* backlog: connections completed by the kernel and not yet accepted.      *)
(* hreq, hres, hdone: one handler object and the request it is given.      *)
(***************************************************************************)
VARIABLES pc, exitKind, binds, stdout, portOwner, backlog, conn, server,
          current, last, hreq, hres, hdone

sysvars == <<pc, exitKind, binds, stdout, portOwner, backlog, conn, server, current, last>>
hvars == <<hreq, hres, hdone>>
vars == <<pc, exitKind, binds, stdout, portOwner, backlog, conn, server,
          current, last, hreq, hres, hdone>>

NoReply == [conn |-> 0, wfile |-> <<>>, raised |-> "", error |-> FALSE]
IdleRequest == Request("eof", <<>>, NoIms, FALSE, "ok")

InitSys ==
    /\ pc = [i \in Inst |-> "start"]
    /\ exitKind = [i \in Inst |-> ""]
    /\ binds = [i \in Inst |-> <<>>]
    /\ stdout = [i \in Inst |-> <<>>]
    /\ portOwner = 0
    /\ backlog = <<>>
    /\ conn = [c \in Conn |-> "new"]
    /\ server = [c \in Conn |-> 0]
    /\ current = [i \in Inst |-> 0]
    /\ last = NoReply

Init ==
    /\ InitSys
    /\ hreq = IdleRequest
    /\ hres = setup(IdleRequest)
    /\ hdone = FALSE

(***************************************************************************)
(* Line 11: TCPServer(("", PORT), CORSRequestHandler).  server_bind binds   *)
(* without SO_REUSEADDR or SO_REUSEPORT (allow_reuse_address and           *)
(* allow_reuse_port are False), so it succeeds only when no socket holds   *)
(* the port and the system permits it; otherwise OSError leaves the        *)
(* constructor, the with statement and the module.                         *)
(***************************************************************************)
server_bind_reuse(owner, denied) == ~denied

server_bind(owner, denied) == owner = 0 /\ ~denied

constructed_swallow(ok) == "bound"

constructed(ok) == IF ok THEN "bound" ELSE "exited"

Construct(i) ==
    /\ pc[i] = "start"
    /\ \E denied \in BOOLEAN :
         LET ok == server_bind(portOwner, denied)
         IN /\ binds' = [binds EXCEPT ![i] = Append(@, IF ok THEN "ok" ELSE "OSError")]
            /\ pc' = [pc EXCEPT ![i] = constructed(ok)]
            /\ exitKind' = [exitKind EXCEPT ![i] = IF constructed(ok) = "exited" THEN "bindError" ELSE @]
            /\ portOwner' = IF ok THEN i ELSE portOwner
    /\ UNCHANGED <<stdout, backlog, conn, server, current, last, hvars>>

(* Line 12: print(f"Serving at http://localhost:{PORT}")                   *)
print_twice(out, port) == out \o <<<<"Serving at http://localhost:", port>>, <<"Serving at http://localhost:", port>>>>

print_startup(out, port) == Append(out, <<"Serving at http://localhost:", port>>)

PrintStartup(i) ==
    /\ pc[i] = "bound"
    /\ stdout' = [stdout EXCEPT ![i] = print_startup(@, PORT)]
    /\ pc' = [pc EXCEPT ![i] = "printed"]
    /\ UNCHANGED <<exitKind, binds, portOwner, backlog, conn, server, current, last, hvars>>

(* Line 13: httpd.serve_forever() enters the select loop.                  *)
ServeForever(i) ==
    /\ pc[i] = "printed"
    /\ pc' = [pc EXCEPT ![i] = "serving"]
    /\ UNCHANGED <<exitKind, binds, stdout, portOwner, backlog, conn, server, current, last, hvars>>

(* A client connects to port 8000: queued by the listening socket, or      *)
(* refused when no socket listens.                                         *)
Connect(c) ==
    /\ conn[c] = "new"
    /\ IF portOwner # 0
       THEN /\ backlog' = Append(backlog, c)
            /\ conn' = [conn EXCEPT ![c] = "queued"]
            /\ server' = [server EXCEPT ![c] = portOwner]
       ELSE /\ conn' = [conn EXCEPT ![c] = "refused"]
            /\ UNCHANGED <<backlog, server>>
    /\ UNCHANGED <<pc, exitKind, binds, stdout, portOwner, current, last, hvars>>

(***************************************************************************)
(* serve_forever: select reports the listening socket readable and         *)
(* _handle_request_noblock accepts one connection.  TCPServer has no       *)
(* threading or forking mix-in: process_request runs the handler in the    *)
(* loop's own thread, so the loop is back in select only when it returns.  *)
(***************************************************************************)
accept_ready_threaded(i) ==
    pc[i] \in {"serving", "handling"} /\ portOwner = i /\ backlog # <<>>

accept_ready(i) == pc[i] = "serving" /\ portOwner = i /\ backlog # <<>>

Accept(i) ==
    /\ accept_ready(i)
    /\ current' = [current EXCEPT ![i] = Head(backlog)]
    /\ backlog' = Tail(backlog)
    /\ conn' = [conn EXCEPT ![Head(backlog)] = "accepted"]
    /\ pc' = [pc EXCEPT ![i] = "handling"]
    /\ UNCHANGED <<exitKind, binds, stdout, portOwner, server, last, hvars>>

(***************************************************************************)
(* _handle_request_noblock around process_request: "except Exception"      *)
(* reports the error (handle_error) and closes the connection; the loop    *)
(* goes on.  serve_forever loops while no shutdown was requested, and      *)
(* server.py never calls shutdown.                                         *)
(***************************************************************************)
IsException(e) == e \in {"ConnectionResetError", "BrokenPipeError"}

process_request_propagates(raised) == IF raised = "" THEN "serving" ELSE "exited"

process_request(raised) ==
    IF raised = "" \/ IsException(raised) THEN "serving" ELSE "exited"

serve_once(shutdown_request) == "exited"

serve_forever(shutdown_request) == IF shutdown_request THEN "exited" ELSE "serving"

Released(i, owner) == IF owner = i THEN 0 ELSE owner

(* What the handler of a connection leaves behind, for every request.      *)
Outcome(h) ==
    [wfile |-> h.wfile, raised |-> h.raised, close_connection |-> h.close_connection]

Outcomes == {Outcome(handle(req)) : req \in Requests}

(* The connection's client sends its request (or fails to); the handler    *)
(* handles it, and handle returns once close_connection is set or an      *)
(* exception leaves it; the connection is then closed.                     *)
Handle(i) ==
    /\ pc[i] = "handling"
    /\ current[i] # 0
    /\ \E h \in Outcomes :
         LET c    == current[i]
             done == h.close_connection \/ h.raised # ""
             next == IF ~done THEN "handling"
                     ELSE IF process_request(h.raised) = "serving"
                     THEN serve_forever(FALSE) ELSE "exited"
         IN /\ last' = [conn |-> c, wfile |-> h.wfile, raised |-> h.raised,
                        error |-> IsErrorReply(h)]
            /\ conn' = [conn EXCEPT ![c] = IF ~done THEN @
                                           ELSE IF IsErrorReply(h) THEN "errored"
                                           ELSE "served"]
            /\ current' = [current EXCEPT ![i] = IF done THEN 0 ELSE @]
            /\ pc' = [pc EXCEPT ![i] = next]
            /\ exitKind' = [exitKind EXCEPT ![i] = IF next = "exited" THEN "ended" ELSE @]
            /\ portOwner' = IF next = "exited" THEN Released(i, portOwner) ELSE portOwner
    /\ UNCHANGED <<binds, stdout, backlog, server, hvars>>

(* The process is ended from outside (a signal): the system closes its     *)
(* sockets.                                                                *)
Kill(i) ==
    /\ pc[i] \in {"bound", "printed", "serving", "handling"}
    /\ pc' = [pc EXCEPT ![i] = "exited"]
    /\ exitKind' = [exitKind EXCEPT ![i] = "killed"]
    /\ portOwner' = Released(i, portOwner)
    /\ backlog' = IF portOwner = i THEN <<>> ELSE backlog
    /\ conn' = [c \in Conn |->
                  IF server[c] = i /\ conn[c] \in {"queued", "accepted"}
                  THEN "reset" ELSE conn[c]]
    /\ current' = [current EXCEPT ![i] = 0]
    /\ UNCHANGED <<binds, stdout, server, last, hvars>>

Next ==
    \/ \E i \in Inst : Construct(i)
    \/ \E i \in Inst : PrintStartup(i)
    \/ \E i \in Inst : ServeForever(i)
    \/ \E c \in Conn : Connect(c)
    \/ \E i \in Inst : Accept(i)
    \/ \E i \in Inst : Handle(i)
    \/ \E i \in Inst : Kill(i)

Spec == Init /\ [][Next]_vars

(***************************************************************************)
(* One handler object given one request: the reply as a function of the    *)
(* request and the serving root.                                           *)
(***************************************************************************)
InitHandler ==
    /\ InitSys
    /\ hreq \in Requests
    /\ hres = setup(hreq)
    /\ hdone = FALSE

HandleRequest ==
    /\ ~hdone
    /\ hres' = handle(hreq)
    /\ hdone' = TRUE
    /\ UNCHANGED <<hreq, sysvars>>

NextHandler == HandleRequest

SpecHandler == InitHandler /\ [][NextHandler]_vars

(***************************************************************************)
(* Vocabulary of the properties.                                           *)
(***************************************************************************)
CorsSent(w) ==
    /\ HasHeader(w, "Access-Control-Allow-Origin", "*")
    /\ HasHeader(w, "Access-Control-Allow-Methods", "GET")

LibraryHeaders ==
    {"Server", "Date", "Connection", "Content-Type", "Content-type",
     "Content-Length", "Last-Modified", "Location"}

(* The header lines of a reply that the library did not put there.         *)
OwnHeaders(w) ==
    SelectSeq(w, LAMBDA it : it.kind = "header" /\ it.name \notin LibraryHeaders)

Answered == hdone /\ hres.wfile # <<>>

IsGet(req) ==
    /\ req.raw = "line"
    /\ Len(req.words) \in {2, 3}
    /\ req.words[1] = "GET"

(* A GET whose request line ends in HTTP/1.0 or HTTP/1.1 and whose header  *)
(* block can be read.                                                      *)
IsGet1x(req) ==
    /\ IsGet(req)
    /\ Len(req.words) = 3
    /\ req.words[3] \in {"HTTP/1.0", "HTTP/1.1"}
    /\ req.hdr = "ok"

Target(req) == translate_path(req.words[2])

ResolvesToNothing(req) == Tree(Target(req).name).type = "none"

ResolvesToFile(req) == Tree(Target(req).name).type = "file" /\ ~Target(req).slash

Live(i) == pc[i] \in {"bound", "printed", "serving", "handling"}

(* Handle(i) has just run for the connection instance i was handling.      *)
Handled(i) == pc[i] = "handling" /\ last'.conn = current[i]

(***************************************************************************)
(* C1, as stated: every reply the server sends, whatever the request and   *)
(* the outcome, has both CORS headers in its header block.                 *)
(***************************************************************************)
C1_EveryReplyHasCors == Answered => CorsSent(hres.wfile)

(***************************************************************************)
(* C1, amended: every reply to a request that is not handled as HTTP/0.9   *)
(* starts with a status line and has both CORS headers in its header       *)
(* block, before the blank line; a reply to a request handled as HTTP/0.9  *)
(* has no status line and no header at all.                                *)
(***************************************************************************)
C1_RepliesWithHeadersHaveCors ==
    Answered =>
        IF hres.request_version # "HTTP/0.9"
        THEN StatusOf(hres.wfile) # 0 /\ CorsSent(hres.wfile)
        ELSE \A k \in 1..Len(hres.wfile) : hres.wfile[k].kind = "body"

C1_Witness ==
    /\ Answered
    /\ StatusOf(hres.wfile) = 501
    /\ CorsSent(hres.wfile)

(***************************************************************************)
(* C2, as stated: a GET for a path that resolves to nothing under the root *)
(* is answered with status 404 and both CORS headers.                      *)
(***************************************************************************)
C2_MissingPathIs404WithCors ==
    (hdone /\ IsGet(hreq) /\ hreq.hdr = "ok" /\ ResolvesToNothing(hreq)) =>
        (StatusOf(hres.wfile) = 404 /\ CorsSent(hres.wfile))

(***************************************************************************)
(* C2, amended: an HTTP/1.0 or HTTP/1.1 GET for a path that resolves to    *)
(* nothing under the root is answered with status 404, both CORS headers   *)
(* and the error page.                                                     *)
(***************************************************************************)
C2_MissingPathIs404WithCors1x ==
    (hdone /\ IsGet1x(hreq) /\ ResolvesToNothing(hreq)) =>
        /\ StatusOf(hres.wfile) = 404
        /\ CorsSent(hres.wfile)
        /\ BodyOf(hres.wfile) = ErrorPage(404)

C2_Witness ==
    /\ hdone
    /\ IsGet1x(hreq)
    /\ ResolvesToNothing(hreq)
    /\ StatusOf(hres.wfile) = 404

(***************************************************************************)
(* C3, as stated: a GET for a path that resolves to a regular file is      *)
(* answered with status 200 and the file's bytes, whatever the other       *)
(* request headers.                                                        *)
(***************************************************************************)
C3_FileIs200WithBytes ==
    (hdone /\ IsGet(hreq) /\ hreq.hdr = "ok" /\ ResolvesToFile(hreq)) =>
        /\ StatusOf(hres.wfile) = 200
        /\ BodyOf(hres.wfile) = Tree(Target(hreq).name).data

(***************************************************************************)
(* C3, amended: an HTTP/1.0 or HTTP/1.1 GET for a path that resolves to a  *)
(* regular file the server can open is answered with status 200 and the    *)
(* file's bytes, unless it carries an If-Modified-Since header with a      *)
(* well-formed UTC date not earlier than the file's modification time and  *)
(* no If-None-Match header: then the answer is 304 without a body.         *)
(***************************************************************************)
C3_FileIs200Or304 ==
    (hdone /\ IsGet1x(hreq) /\ ResolvesToFile(hreq)
           /\ Tree(Target(hreq).name).readable) =>
        LET file == Tree(Target(hreq).name)
            ims  == hreq.ims
        IN IF /\ ims.present /\ ims.wellformed /\ ims.utc
              /\ ims.time >= file.mtime
              /\ ~hreq.inm
           THEN StatusOf(hres.wfile) = 304 /\ BodyItems(hres.wfile) = <<>>
           ELSE StatusOf(hres.wfile) = 200 /\ BodyOf(hres.wfile) = file.data

C3_Witness ==
    /\ hdone
    /\ IsGet1x(hreq)
    /\ hreq.ims.present
    /\ hreq.inm
    /\ StatusOf(hres.wfile) = 200
    /\ BodyOf(hres.wfile) = <<1, 2, 3>>

(***************************************************************************)
(* C4: an error while one request is handled (an error status sent, or an  *)
(* exception while reading or writing) leaves the server in its accept     *)
(* loop, still bound, with its queue of waiting connections untouched.     *)
(***************************************************************************)
C4_RequestErrorsAreNotFatal ==
    [][\A i \in Inst :
         (Handled(i) /\ last'.error) =>
            /\ pc'[i] = "serving"
            /\ exitKind'[i] = ""
            /\ portOwner = i /\ portOwner' = i
            /\ backlog' = backlog
            /\ conn'[current[i]] = "errored"
            /\ \A c \in Conn \ {current[i]} : conn'[c] = conn[c]]_vars

(* A connection is served after another one ended in an error.             *)
C4_Witness ==
    \E c1, c2 \in Conn :
        /\ conn[c1] = "errored"
        /\ conn[c2] = "served"
        /\ last.conn = c2
        /\ StatusOf(last.wfile) = 200

(***************************************************************************)
(* C5: an instance whose bind failed has ended, with one bind attempt,     *)
(* nothing printed, no port held and no connection ever accepted.          *)
(***************************************************************************)
C5_BindFailureIsFatal ==
    \A i \in Inst :
        /\ Len(binds[i]) <= 1
        /\ binds[i] = <<"OSError">> =>
              /\ pc[i] = "exited"
              /\ exitKind[i] = "bindError"
              /\ stdout[i] = <<>>
              /\ portOwner # i
              /\ current[i] = 0
              /\ \A c \in Conn : server[c] # i

C5_Witness ==
    \E i \in Inst : binds[i] = <<"OSError">> /\ portOwner = 0 /\ pc[i] = "exited"

(***************************************************************************)
(* C6: while one instance holds the port, the start of another instance    *)
(* ends it with a bind error and changes nothing of the first instance,    *)
(* its port or its connections.                                            *)
(***************************************************************************)
C6_SecondInstanceFails ==
    [][\A i, j \in Inst :
         (i # j /\ portOwner = i /\ Live(i) /\ pc[j] = "start" /\ pc'[j] # "start") =>
            /\ pc'[j] = "exited"
            /\ exitKind'[j] = "bindError"
            /\ binds'[j] = <<"OSError">>
            /\ portOwner' = i
            /\ pc'[i] = pc[i]
            /\ <<backlog, conn, server, current, stdout[i]>>' = <<backlog, conn, server, current, stdout[i]>>]_vars

(* The second instance has failed and the first one is serving a client    *)
(* with the answer of an earlier one delivered.                            *)
C6_Witness ==
    \E i, j \in Inst :
        /\ i # j
        /\ binds[j] = <<"OSError">>
        /\ portOwner = i
        /\ pc[i] = "handling"
        /\ last.conn # 0

(***************************************************************************)
(* C7: the startup line is printed at most once, only by an instance whose *)
(* bind succeeded, and it has been printed exactly once by the time the    *)
(* instance enters serve_forever or has accepted a connection.             *)
(***************************************************************************)
C7_StartupMessageOnce ==
    \A i \in Inst :
        /\ stdout[i] # <<>> =>
              /\ stdout[i] = << <<"Serving at http://localhost:", 8000>> >>
              /\ binds[i] = <<"ok">>
        /\ pc[i] \in {"printed", "serving", "handling"} => Len(stdout[i]) = 1
        /\ pc[i] \in {"start", "bound"} => stdout[i] = <<>>
        /\ \A c \in Conn :
              (server[c] = i /\ conn[c] \in {"accepted", "served", "errored"}) =>
                  Len(stdout[i]) = 1

C7_Witness ==
    \E i \in Inst : \E c \in Conn :
        /\ server[c] = i
        /\ conn[c] = "accepted"
        /\ Len(stdout[i]) = 1

(***************************************************************************)
(* C8: an instance in serve_forever stays in it at every step of its own;  *)
(* the only step that takes it out is the termination of the process from  *)
(* outside.                                                                *)
(***************************************************************************)
C8_ServingNeverEndsOnItsOwn ==
    [][\A i \in Inst :
         pc[i] \in {"serving", "handling"} =>
            \/ pc'[i] \in {"serving", "handling"}
            \/ pc'[i] = "exited" /\ exitKind'[i] = "killed"]_vars

(* Still serving after every connection of the run has been handled.       *)
C8_Witness ==
    \E i \in Inst :
        /\ pc[i] = "serving"
        /\ \A c \in Conn : server[c] = i /\ conn[c] \in {"served", "errored"}

(***************************************************************************)
(* C9, as stated: every reply with a header block carries three header     *)
(* lines of the server's own.                                              *)
(***************************************************************************)
C9_ThreeOwnHeaders ==
    (Answered /\ StatusOf(hres.wfile) # 0) => Len(OwnHeaders(hres.wfile)) = 3

(***************************************************************************)
(* C9, amended: every reply with a header block carries exactly two header *)
(* lines of the server's own, Access-Control-Allow-Origin: * and then      *)
(* Access-Control-Allow-Methods: GET, and they are the last two lines      *)
(* before the blank line.                                                  *)
(***************************************************************************)
C9_TwoOwnHeaders ==
    (Answered /\ StatusOf(hres.wfile) # 0) =>
        /\ OwnHeaders(hres.wfile) =
              <<HeaderLine("Access-Control-Allow-Origin", "*"),
                HeaderLine("Access-Control-Allow-Methods", "GET")>>
        /\ \A k \in HeaderBlockEnds(hres.wfile) :
              /\ k >= 3
              /\ hres.wfile[k - 2].name = "Access-Control-Allow-Origin"
              /\ hres.wfile[k - 1].name = "Access-Control-Allow-Methods"

C9_Witness ==
    /\ Answered
    /\ StatusOf(hres.wfile) = 301
    /\ Len(OwnHeaders(hres.wfile)) = 2

(***************************************************************************)
(* C10: an instance handles at most one connection at a time, and while it *)
(* handles one it cannot accept the next, however many are waiting.        *)
(***************************************************************************)
C10_OneConnectionAtATime ==
    \A i \in Inst :
        /\ Cardinality({c \in Conn : server[c] = i /\ conn[c] = "accepted"}) <= 1
        /\ (pc[i] = "handling") = (current[i] # 0)
        /\ pc[i] = "handling" => ~ENABLED Accept(i)

(* One connection is being handled and every other one waits in the queue. *)
C10_Witness ==
    \E i \in Inst :
        /\ pc[i] = "handling"
        /\ Len(backlog) = Cardinality(Conn) - 1
====
